---- MODULE Spec2Model ----
(***************************************************************************)
(* Value Picker MCP App: the view session of src/mcp-app.ts (selection     *)
(* handling, host notifications, host-context projection) and the          *)
(* pick_value tool of server.ts.                                           *)
(*                                                                         *)
(* The view is single-threaded JavaScript.  Every handler runs to          *)
(* completion; an async function suspends at each await and its            *)
(* continuation runs as a microtask right after the awaited promise        *)
(* settles, before any other event is dispatched.  One action is therefore *)
(* one handler run, or one settling of a host request together with the    *)
(* continuation of the handleSelect invocation awaiting it.                *)
(***************************************************************************)
EXTENDS Integers, Sequences, FiniteSets, TLC

\* Number of handleSelect invocations explored in one session.
MaxSelections == 2
\* Number of catalog entries a tool result carries in the session model.
MaxCards == 2

\* Number of McpServer instances and of pick_value calls explored.
MaxServers == 2
MaxCalls == 3
\* Number of console writes recorded on the standard streams.
MaxWrites == 2

NULL == "null"

(***************************************************************************)
(* server.ts: the catalog                                                  *)
(***************************************************************************)
VALUES ==
  << [id |-> "alpha", label |-> "Alpha Protocol", description |-> "First-generation quantum encryption"],
     [id |-> "beta", label |-> "Beta Framework", description |-> "Distributed computing mesh"],
     [id |-> "gamma", label |-> "Gamma Engine", description |-> "Neural network accelerator"],
     [id |-> "delta", label |-> "Delta Shield", description |-> "Zero-trust security layer"],
     [id |-> "epsilon", label |-> "Epsilon Core", description |-> "Edge computing runtime"],
     [id |-> "zeta", label |-> "Zeta Pipeline", description |-> "Real-time data streaming"],
     [id |-> "eta", label |-> "Eta Compiler", description |-> "Cross-platform bytecode optimizer"],
     [id |-> "theta", label |-> "Theta Analytics", description |-> "Predictive telemetry dashboard"],
     [id |-> "iota", label |-> "Iota Mesh", description |-> "IoT device orchestration"],
     [id |-> "kappa", label |-> "Kappa Vault", description |-> "Secrets management platform"] >>

Min(a, b) == IF a < b THEN a ELSE b

(***************************************************************************)
(* State of the view                                                       *)
(***************************************************************************)
VARIABLES
  connected,     \* app.connect() has resolved
  _selectedId,   \* let _selectedId: string | null
  cards,         \* children of gridEl: <<[value, selected]>>
  status,        \* statusEl: [textContent, className]
  sels,          \* the invocations of handleSelect, in call order:
                 \*   [value, pc, req] with pc the position of the async
                 \*   function and req the outbox index of the awaited request
  outbox,        \* requests issued to the host, in issue order:
                 \*   [method, params, sel, state]
  presentation,  \* what handleHostContextChanged has applied
  teardown,      \* result of the onteardown handler: "none" | "ack" | "raised"
  server,        \* server.ts: the McpServer instances made by createServer and
                 \*   the pick_value calls they have answered
  main           \* main.ts: the server process

vars == <<connected, _selectedId, cards, status, sels, outbox, presentation, teardown,
          server, main>>

(***************************************************************************)
(* Texts.  A string built by a template literal is the sequence of its     *)
(* literal pieces and interpolated values.  The em dash of the status      *)
(* texts is written "--".                                                  *)
(***************************************************************************)
Contains(text, piece) == \E k \in 1..Len(text) : text[k] = piece

\* mcp-app.ts:84-85
SendingStatus(value) ==
  [textContent |-> <<"Selected: ", value.label, " -- sending to AI...">>,
   className |-> "status sending"]

\* mcp-app.ts:106-107
WarningStatus(value) ==
  [textContent |-> <<"Selected: ", value.label, " (context updated, message send was rejected)">>,
   className |-> "status warning"]

\* mcp-app.ts:109-110
SuccessStatus(value) ==
  [textContent |-> <<"Selected: ", value.label, " -- AI has been notified!">>,
   className |-> "status success"]

\* mcp-app.ts:114-115
ErrorStatus(value) ==
  [textContent |-> <<"Selected: ", value.label, " -- failed to notify AI">>,
   className |-> "status error"]

\* mcp-app.ts:145-146
CancelledStatus ==
  [textContent |-> <<"Tool call was cancelled">>, className |-> "status warning"]

\* statusEl before any handler has written it (the markup is not part of the
\* sources; no handler reads the status).
InitialStatus == [textContent |-> <<>>, className |-> "status"]

\* The shortened text of the README (lines 167-172): no description.
UpdateModelContextParams_Short(value) ==
  [role |-> NULL,
   content |-> << [type |-> "text",
                   text |-> <<"The user selected \"", value.label, "\" (id: ", value.id, ").">>] >>]

\* mcp-app.ts:89-94
UpdateModelContextParams(value) ==
  [role |-> NULL,
   content |-> << [type |-> "text",
                   text |-> <<"The user selected \"", value.label, "\" (id: ", value.id,
                              "). Description: ", value.description,
                              ". Please acknowledge their selection and provide relevant information about this choice.">>] >>]

\* mcp-app.ts:97-103
SendMessageParams ==
  [role |-> "user",
   content |-> << [type |-> "text",
                   text |-> <<"I have picked a value, can you tell me what it is?">>] >>]

(***************************************************************************)
(* Host context (McpUiHostContext).  An optional field is <<>> when absent *)
(* and <<x>> when present.                                                 *)
(***************************************************************************)
HostContext(theme, variables, fonts, insets) ==
  [theme |-> theme, variables |-> variables, fonts |-> fonts, safeAreaInsets |-> insets]

Insets(t, r, b, l) == [top |-> t, right |-> r, bottom |-> b, left |-> l]

\* `${n}px`
Px(n) == <<n, "px">>

NoPresentation ==
  [theme |-> <<>>,
   variables |-> {},
   fonts |-> <<>>,
   padding |-> [top |-> <<>>, right |-> <<>>, bottom |-> <<>>, left |-> <<>>]]

\* JavaScript truthiness of an optional string: present and not empty.
Truthy(opt) == opt # <<>> /\ opt[1] # ""

\* applyDocumentTheme(theme): the document carries the given theme.
applyDocumentTheme(p, theme) == [p EXCEPT !.theme = <<theme>>]

\* applyHostStyleVariables(variables): each given custom property is set on the
\* root element; properties not named keep their value.  variables is a set
\* of <<name, value>> pairs with distinct names.
applyHostStyleVariables(p, variables) ==
  [p EXCEPT !.variables =
     {nv \in @ : \A w \in variables : w[1] # nv[1]} \cup variables]

\* applyHostFonts(css): the font style element is created on the first call and
\* left alone afterwards.
applyHostFonts(p, css) ==
  IF p.fonts = <<>> THEN [p EXCEPT !.fonts = <<css>>] ELSE p

\* Insets added to the padding already there instead of replacing it.
applySafeAreaInsets_Accumulates(p, i) ==
  LET old(side) == IF side = <<>> THEN 0 ELSE side[1]
  IN [p EXCEPT !.padding = [top |-> Px(old(@.top) + i.top),
                            right |-> Px(old(@.right) + i.right),
                            bottom |-> Px(old(@.bottom) + i.bottom),
                            left |-> Px(old(@.left) + i.left)]]

\* mcp-app.ts:42-47
applySafeAreaInsets(p, i) ==
  [p EXCEPT !.padding = [top |-> Px(i.top), right |-> Px(i.right),
                         bottom |-> Px(i.bottom), left |-> Px(i.left)]]

\* A projector that rebuilds the presentation from its defaults for every
\* snapshot, so that an aspect the snapshot lacks is cleared.
Project_FromDefaults(p, ctx) ==
  LET p1 == IF Truthy(ctx.theme) THEN applyDocumentTheme(NoPresentation, ctx.theme[1])
            ELSE NoPresentation
      p2 == IF ctx.variables # <<>> THEN applyHostStyleVariables(p1, ctx.variables[1]) ELSE p1
      p3 == IF Truthy(ctx.fonts) THEN applyHostFonts(p2, ctx.fonts[1]) ELSE p2
      p4 == IF ctx.safeAreaInsets # <<>> THEN applySafeAreaInsets(p3, ctx.safeAreaInsets[1]) ELSE p3
  IN p4

\* mcp-app.ts:32-48
Project(p, ctx) ==
  LET p1 == IF Truthy(ctx.theme) THEN applyDocumentTheme(p, ctx.theme[1]) ELSE p
      p2 == IF ctx.variables # <<>> THEN applyHostStyleVariables(p1, ctx.variables[1]) ELSE p1
      p3 == IF Truthy(ctx.fonts) THEN applyHostFonts(p2, ctx.fonts[1]) ELSE p2
      p4 == IF ctx.safeAreaInsets # <<>> THEN applySafeAreaInsets(p3, ctx.safeAreaInsets[1]) ELSE p3
  IN p4

\* The snapshot the host sends in the session model: a theme only.
SessionContexts ==
  { HostContext(<<"dark">>, <<>>, <<>>, <<>>) }

\* The snapshots of the projector model.  The theme "dark" comes only in the
\* theme-only snapshot of Scenario D; the variables of FullContext come only
\* in FullContext.
ThemeOnlyContext == HostContext(<<"dark">>, <<>>, <<>>, <<>>)

FullVariables ==
  { <<"--color-background-primary", "#ffffff">>, <<"--font-sans", "system-ui">> }

FullContext ==
  HostContext(<<"light">>, <<FullVariables>>, <<"@font-face{font-family:A}">>,
              <<Insets(0, 4, 8, 4)>>)

ProjectorContexts ==
  { HostContext(<<>>, <<>>, <<>>, <<>>),
    ThemeOnlyContext,
    FullContext,
    HostContext(<<"">>, <<{<<"--color-background-primary", "#000000">>}>>, <<"">>, <<>>),
    HostContext(<<>>, <<{}>>, <<>>, <<>>),
    HostContext(<<>>, <<{<<"--font-sans", "Inter">>}>>, <<>>, <<>>),
    HostContext(<<>>, <<>>, <<"@font-face{font-family:B}">>, <<>>),
    HostContext(<<>>, <<>>, <<>>, <<Insets(10, 0, 0, 0)>>),
    HostContext(<<>>, <<>>, <<>>, <<Insets(0, 0, 0, 0)>>),
    HostContext(<<"light">>, <<>>, <<>>, <<Insets(2, 2, 2, 2)>>) }

(***************************************************************************)
(* Tool results delivered to the view                                      *)
(***************************************************************************)
\* structuredContent: <<>> when absent, else <<[values |-> <<>> or <<catalog>>]>>.
ToolResult(content, structured) == [content |-> content, structuredContent |-> structured]

Catalog == SubSeq(VALUES, 1, Min(MaxCards, Len(VALUES)))

\* server.ts:68  VALUES.map(v => v.label).join(", ")
RECURSIVE JoinLabels(_)
JoinLabels(vs) ==
  IF vs = <<>> THEN <<>>
  ELSE IF Len(vs) = 1 THEN <<vs[1].label>>
  ELSE <<vs[1].label, ", ">> \o JoinLabels(Tail(vs))

SessionResults ==
  { ToolResult(<<"text">>, <<>>),
    ToolResult(<<"text">>, <<[values |-> <<>>]>>),
    ToolResult(<<"text">>, <<[values |-> <<Catalog>>]>>) }

\* The tool results of the rendering model: no structured content, structured
\* content without values, an empty catalog, the catalog in reverse order, and
\* the catalog with two different model-text channels, one of which names the
\* entries in another order.
Reverse(q) == [k \in 1..Len(q) |-> q[Len(q) + 1 - k]]

TwoEntries == SubSeq(VALUES, 1, 2)

PlainContent == <<[type |-> "text", text |-> <<"text">>]>>

NamingContent ==
  <<[type |-> "text", text |-> <<"Test values: ">> \o JoinLabels(Reverse(TwoEntries))]>>

RenderResults ==
  { ToolResult(PlainContent, <<>>),
    ToolResult(PlainContent, <<[values |-> <<>>]>>),
    ToolResult(PlainContent, <<[values |-> << <<>> >>]>>),
    ToolResult(PlainContent, <<[values |-> <<Reverse(TwoEntries)>>]>>),
    ToolResult(PlainContent, <<[values |-> <<TwoEntries>>]>>),
    ToolResult(NamingContent, <<[values |-> <<TwoEntries>>]>>) }

(***************************************************************************)
(* Init: the module has been evaluated (mcp-app.ts:25-30, 120-156): the    *)
(* handlers are registered and app.connect() has been called.              *)
(***************************************************************************)
ViewInit ==
  /\ connected = FALSE
  /\ _selectedId = NULL
  /\ cards = <<>>
  /\ status = InitialStatus
  /\ sels = <<>>
  /\ outbox = <<>>
  /\ presentation = NoPresentation
  /\ teardown = "none"

\* No server instance has been created and no tool has been called.
NoServer == [instances |-> 0, calls |-> <<>>]

\* The server process before main.ts is evaluated, started with the given
\* command line and standard input.
\*   pc        position in main.ts
\*   transport the module constant of main.ts:235 (NULL before it is set)
\*   noop      the console methods replaced by noop
\*   called    the console methods called so far
\*   streams   what console calls have written to stdout and stderr
\*   started   the transport the server is connected to ("none" before)
\*   exit      the process exit code (<<>> while running)
Process(argv, isTTY) ==
  [argv |-> argv, isTTY |-> isTTY, pc |-> "resolve", transport |-> NULL,
   noop |-> {}, called |-> {}, streams |-> <<>>, started |-> "none", exit |-> <<>>]

Init ==
  /\ ViewInit
  /\ server = NoServer
  /\ main = Process({}, TRUE)

\* mcp-app.ts:156-161.  ctx is <<>> when getHostContext() returns nothing.
connectThen(ctx) ==
  /\ ~connected
  /\ connected' = TRUE
  /\ presentation' = IF ctx # <<>> THEN Project(presentation, ctx[1]) ELSE presentation
  /\ UNCHANGED <<_selectedId, cards, status, sels, outbox, teardown, server, main>>

\* mcp-app.ts:32-48, 153
handleHostContextChanged(ctx) ==
  /\ connected
  /\ presentation' = Project(presentation, ctx)
  /\ UNCHANGED <<connected, _selectedId, cards, status, sels, outbox, teardown, server, main>>

\* mcp-app.ts:128-132: logs only.
ontoolinput ==
  /\ connected
  /\ UNCHANGED vars

\* renderValues without gridEl.innerHTML = "": the new cards are added to the
\* ones already shown.
renderValues_Appends(values) ==
  cards \o [k \in 1..Len(values) |-> [value |-> values[k], selected |-> FALSE]]

\* mcp-app.ts:53-68: the grid is emptied and one unmarked card is made per value.
renderValues(values) ==
  [k \in 1..Len(values) |-> [value |-> values[k], selected |-> FALSE]]

\* ontoolresult that forgets the selection when it renders.
ontoolresult_ClearsSelection(result) ==
  /\ connected
  /\ cards' = IF result.structuredContent # <<>> /\ result.structuredContent[1].values # <<>>
              THEN renderValues(result.structuredContent[1].values[1])
              ELSE cards
  /\ _selectedId' = NULL
  /\ UNCHANGED <<connected, status, sels, outbox, presentation, teardown, server, main>>

\* mcp-app.ts:134-141
ontoolresult(result) ==
  /\ connected
  /\ cards' = IF result.structuredContent # <<>> /\ result.structuredContent[1].values # <<>>
              THEN renderValues(result.structuredContent[1].values[1])
              ELSE cards
  /\ UNCHANGED <<connected, _selectedId, status, sels, outbox, presentation, teardown, server, main>>

\* mcp-app.ts:143-147
ontoolcancelled ==
  /\ connected
  /\ status' = CancelledStatus
  /\ UNCHANGED <<connected, _selectedId, cards, sels, outbox, presentation, teardown, server, main>>

\* onteardown that fails while a request is outstanding.
onteardown_Raises ==
  /\ connected
  /\ teardown = "none"
  /\ teardown' = IF \E r \in 1..Len(outbox) : outbox[r].state = "pending"
                 THEN "raised" ELSE "ack"
  /\ UNCHANGED <<connected, _selectedId, cards, status, sels, outbox, presentation, server, main>>

\* mcp-app.ts:123-126.  The host sends resource-teardown once.
onteardown ==
  /\ connected
  /\ teardown = "none"
  /\ teardown' = "ack"
  /\ UNCHANGED <<connected, _selectedId, cards, status, sels, outbox, presentation, server, main>>

(***************************************************************************)
(* handleSelect                                                            *)
(***************************************************************************)
UpdateModelContext == "ui/update-model-context"
SendMessage == "ui/message"

Request(method, params, s) ==
  [method |-> method, params |-> params, sel |-> s, state |-> "pending"]

\* mcp-app.ts:79-81: classList.toggle("selected", dataset.id === value.id)
MarkSelected(cs, id) ==
  [k \in 1..Len(cs) |-> [cs[k] EXCEPT !.selected = (cs[k].value.id = id)]]

\* handleSelect without the first await: both requests leave at once.
EntryRequests_NoAwait(value, s) ==
  << Request(UpdateModelContext, UpdateModelContextParams(value), s),
     Request(SendMessage, SendMessageParams, s) >>

\* mcp-app.ts:87-94: the requests handleSelect(value), invocation s, issues before
\* it first suspends.
EntryRequests(value, s) ==
  << Request(UpdateModelContext, UpdateModelContextParams(value), s) >>

InFlight(s) == sels[s].pc \in {"await_updateModelContext", "await_sendMessage"}

\* handleSelect that ignores a click while an earlier sequence is in flight.
handleSelect_Blocking(value) ==
  /\ Len(sels) < MaxSelections
  /\ \A s \in 1..Len(sels) : ~InFlight(s)
  /\ _selectedId' = value.id
  /\ cards' = MarkSelected(cards, value.id)
  /\ status' = SendingStatus(value)
  /\ outbox' = outbox \o EntryRequests(value, Len(sels) + 1)
  /\ sels' = Append(sels, [value |-> value,
                           pc |-> "await_updateModelContext",
                           req |-> Len(outbox) + 1])
  /\ UNCHANGED <<connected, presentation, teardown, server, main>>

\* mcp-app.ts:76-94: the click handler of a card, up to the first await.
handleSelect(value) ==
  /\ Len(sels) < MaxSelections
  /\ _selectedId' = value.id
  /\ cards' = MarkSelected(cards, value.id)
  /\ status' = SendingStatus(value)
  /\ outbox' = outbox \o EntryRequests(value, Len(sels) + 1)
  /\ sels' = Append(sels, [value |-> value,
                           pc |-> "await_updateModelContext",
                           req |-> Len(outbox) + 1])
  /\ UNCHANGED <<connected, presentation, teardown, server, main>>

\* mcp-app.ts:65: a card that is displayed is clicked.
Click == \E k \in 1..Len(cards) : handleSelect(cards[k].value)

\* handleSelect without its catch block: the rejection leaves the function.
Catch_Rethrow(value) == [write |-> <<>>, pc |-> "rejected"]

\* mcp-app.ts:112-116: the catch block.  A step is [write, pc]: the status
\* written (<<>> for none) and the position reached.
Catch(value) == [write |-> <<ErrorStatus(value)>>, pc |-> "fulfilled"]

\* mcp-app.ts:89-97: what follows the await of updateModelContext.  The promise
\* resolves ("ok") or rejects ("rejected").
AfterUpdateModelContext(value, outcome) ==
  IF outcome = "ok"
  THEN [write |-> <<>>, pc |-> "await_sendMessage"]
  ELSE Catch(value)

\* mcp-app.ts:97-116: what follows the await of sendMessage.  The promise resolves
\* with a result ("ok"), with an error result ("isError"), or rejects.
AfterSendMessage(value, outcome) ==
  IF outcome = "rejected" THEN Catch(value)
  ELSE IF outcome = "isError"
  THEN [write |-> <<WarningStatus(value)>>, pc |-> "fulfilled"]
  ELSE [write |-> <<SuccessStatus(value)>>, pc |-> "fulfilled"]

Pending(r, method) ==
  /\ r \in 1..Len(outbox)
  /\ outbox[r].method = method
  /\ outbox[r].state = "pending"

\* The host settles update-model-context request r; the invocation awaiting it
\* resumes (mcp-app.ts:89-103, 112-116).
SettleUpdateModelContext(r, outcome) ==
  /\ Pending(r, UpdateModelContext)
  /\ LET s == outbox[r].sel
         value == sels[s].value
         step == AfterUpdateModelContext(value, outcome)
         settled == [outbox EXCEPT ![r].state = outcome]
     IN /\ status' = IF step.write # <<>> THEN step.write[1] ELSE status
        /\ IF step.pc = "await_sendMessage"
           THEN /\ outbox' = Append(settled, Request(SendMessage, SendMessageParams, s))
                /\ sels' = [sels EXCEPT ![s].pc = step.pc, ![s].req = Len(outbox) + 1]
           ELSE /\ outbox' = settled
                /\ sels' = [sels EXCEPT ![s].pc = step.pc]
  /\ UNCHANGED <<connected, _selectedId, cards, presentation, teardown, server, main>>

\* The host settles send-message request r; the invocation awaiting it resumes
\* (mcp-app.ts:97-116).
SettleSendMessage(r, outcome) ==
  /\ Pending(r, SendMessage)
  /\ LET s == outbox[r].sel
         value == sels[s].value
         step == AfterSendMessage(value, outcome)
     IN /\ status' = IF step.write # <<>> THEN step.write[1] ELSE status
        /\ outbox' = [outbox EXCEPT ![r].state = outcome]
        /\ sels' = [sels EXCEPT ![s].pc = step.pc]
  /\ UNCHANGED <<connected, _selectedId, cards, presentation, teardown, server, main>>

Next ==
  \/ \E ctx \in {<<>>} \cup {<<c>> : c \in SessionContexts} : connectThen(ctx)
  \/ \E ctx \in SessionContexts : handleHostContextChanged(ctx)
  \/ ontoolinput
  \/ \E result \in SessionResults : ontoolresult(result)
  \/ ontoolcancelled
  \/ onteardown
  \/ Click
  \/ \E r \in 1..Len(outbox), o \in {"ok", "rejected"} : SettleUpdateModelContext(r, o)
  \/ \E r \in 1..Len(outbox), o \in {"ok", "isError", "rejected"} : SettleSendMessage(r, o)

Spec == Init /\ [][Next]_vars

\* The session with the tool results of the rendering model; the host accepts
\* every request.
NextRender ==
  \/ \E ctx \in {<<>>} \cup {<<c>> : c \in SessionContexts} : connectThen(ctx)
  \/ \E ctx \in SessionContexts : handleHostContextChanged(ctx)
  \/ ontoolinput
  \/ \E result \in RenderResults : ontoolresult(result)
  \/ ontoolcancelled
  \/ onteardown
  \/ Click
  \/ \E r \in 1..Len(outbox) : SettleUpdateModelContext(r, "ok")
  \/ \E r \in 1..Len(outbox) : SettleSendMessage(r, "ok")

SpecRender == Init /\ [][NextRender]_vars

\* The projector alone: the initial snapshot of connect and the
\* host-context-changed notifications, with the snapshots of the projector
\* model.
NextProjector ==
  \/ \E ctx \in {<<>>} \cup {<<c>> : c \in ProjectorContexts} : connectThen(ctx)
  \/ \E ctx \in ProjectorContexts : handleHostContextChanged(ctx)

SpecProjector == Init /\ [][NextProjector]_vars

(***************************************************************************)
(* server.ts: createServer and the pick_value tool                         *)
(***************************************************************************)
\* server.ts:72
Instruction ==
  "Wait for the user to select a value via the UI. Their choice will appear in the model context."

\* server.ts:62-68: the text of the model-visible block.
PickValueText ==
  << "[MCP Apps Test] This is a debug tool for testing value communication between the UI and the model.",
     "\n\n",
     "The user will select one of 10 test values via the interactive UI. Their selection will be injected into your context via ui/update-model-context. The user will then ask you to confirm which value you received.",
     "\n\n",
     "Your job: Simply report back the value you received. This tests whether the MCP Apps context injection is working. Do not provide detailed analysis of the values -- just confirm what was selected.",
     "\n\n",
     "Test values: " >> \o JoinLabels(VALUES)

\* A pick_value handler that takes the entries out of the shared VALUES array as
\* it serves them: every call finds one entry fewer.
PickValueHandler_Shifts ==
  [isError |-> FALSE,
   code |-> "",
   content |-> <<[type |-> "text", text |-> PickValueText]>>,
   structuredContent |->
     <<[values |-> SubSeq(VALUES, 1 + Min(Len(server.calls), Len(VALUES)), Len(VALUES)),
        instruction |-> Instruction]>>]

\* server.ts:58-75: the handler; it takes no arguments and reads only VALUES.
PickValueHandler ==
  [isError |-> FALSE,
   code |-> "",
   content |-> <<[type |-> "text", text |-> PickValueText]>>,
   structuredContent |-> <<[values |-> VALUES, instruction |-> Instruction]>>]

\* The protocol error of a call whose arguments the input schema rejects.
InvalidParams ==
  [isError |-> TRUE, code |-> "InvalidParams", content |-> <<>>, structuredContent |-> <<>>]

\* Argument objects of a tools/call request: sets of <<name, value>> pairs.
ToolArguments ==
  { {}, {<<"value", "alpha">>}, {<<"limit", "3">>, <<"offset", "1">>} }

\* server.ts:47: inputSchema: {} declares no parameter.
SatisfiesInputSchema(args) == args = {}

\* server.ts:42-76: the outcomes of tools/call pick_value.  The arguments are
\* checked against the input schema by McpServer, which is a dependency and
\* not part of these sources: for arguments that carry parameters it either
\* rejects the call or drops the parameters and runs the handler.
CallOutcomes(args) ==
  IF SatisfiesInputSchema(args)
  THEN { [handlerRan |-> TRUE, response |-> PickValueHandler] }
  ELSE { [handlerRan |-> TRUE, response |-> PickValueHandler],
         [handlerRan |-> FALSE, response |-> InvalidParams] }

ViewVars == <<connected, _selectedId, cards, status, sels, outbox, presentation, teardown>>

\* server.ts:32-95
createServer ==
  /\ server.instances < MaxServers
  /\ server' = [server EXCEPT !.instances = @ + 1]
  /\ UNCHANGED <<ViewVars, main>>

\* tools/call pick_value on instance i.
callPickValue(i, args) ==
  /\ i \in 1..server.instances
  /\ Len(server.calls) < MaxCalls
  /\ \E o \in CallOutcomes(args) :
       server' = [server EXCEPT !.calls =
                    Append(@, [instance |-> i, arguments |-> args,
                               handlerRan |-> o.handlerRan, response |-> o.response])]
  /\ UNCHANGED <<ViewVars, main>>

NextServer ==
  \/ createServer
  \/ \E i \in 1..MaxServers, args \in ToolArguments : callPickValue(i, args)

SpecServer == Init /\ [][NextServer]_vars

(***************************************************************************)
(* main.ts: transport selection, console suppression and start-up          *)
(***************************************************************************)
CommandLineFlags == {"--stdio", "--http"}

ConsoleMethods == {"log", "info", "warn", "error", "debug"}

\* The stream a native console method writes to.
StreamOf(m) == IF m \in {"warn", "error"} THEN "stderr" ELSE "stdout"

\* resolveTransport that looks at --http first.
resolveTransport_HttpFirst(argv, isTTY) ==
  IF "--http" \in argv THEN "http"
  ELSE IF "--stdio" \in argv THEN "stdio"
  ELSE IF isTTY THEN "http" ELSE "stdio"

\* main.ts (README.md:227-233)
resolveTransport(argv, isTTY) ==
  IF "--stdio" \in argv THEN "stdio"
  ELSE IF "--http" \in argv THEN "http"
  ELSE IF isTTY THEN "http" ELSE "stdio"

\* A suppression that silences stdout only and leaves warn and error native.
Suppressed_StdoutOnly(transport) ==
  IF transport = "stdio" THEN {"log", "info", "debug"} ELSE {}

\* main.ts (README.md:241-248): the console methods replaced by noop.
Suppressed(transport) ==
  IF transport = "stdio" THEN {"log", "info", "warn", "error", "debug"} ELSE {}

\* A call of console[m]: a native method writes to its stream, noop does not.
ConsoleCall(p, m) ==
  [p EXCEPT !.called = @ \cup {m},
            !.streams = IF m \notin p.noop /\ Len(@) < MaxWrites
                        THEN Append(@, [stream |-> StreamOf(m), method |-> m])
                        ELSE @]

\* main.ts (README.md:235): const transport = resolveTransport()
resolve ==
  /\ main.pc = "resolve"
  /\ main' = [main EXCEPT !.transport = resolveTransport(main.argv, main.isTTY),
                          !.pc = "suppress"]
  /\ UNCHANGED <<ViewVars, server>>

\* main.ts (README.md:241-248)
suppress ==
  /\ main.pc = "suppress"
  /\ main' = [main EXCEPT !.noop = Suppressed(main.transport), !.pc = "main"]
  /\ UNCHANGED <<ViewVars, server>>

\* main.ts (README.md:328-342): main() in stdio mode; startStdioServer creates
\* the server and connects it, which succeeds or rejects.
startStdioServer(ok) ==
  /\ main.pc = "main"
  /\ main.transport = "stdio"
  /\ server' = [server EXCEPT !.instances = @ + 1]
  /\ main' = IF ok THEN [main EXCEPT !.started = "stdio", !.pc = "serving"]
             ELSE [main EXCEPT !.pc = "catch"]
  /\ UNCHANGED ViewVars

\* main.ts (README.md:277-326, 336-342): main() in any other mode;
\* findAvailablePort rejects ("port"), listen reports an error ("listen") or
\* the server listens ("ok").
startStreamableHTTPServer(outcome) ==
  /\ main.pc = "main"
  /\ main.transport # "stdio"
  /\ main' = IF outcome = "port" THEN [main EXCEPT !.pc = "catch"]
             ELSE IF outcome = "listen"
             THEN [ConsoleCall(main, "error") EXCEPT !.pc = "exited", !.exit = <<1>>]
             ELSE [ConsoleCall(main, "log") EXCEPT !.started = "http", !.pc = "serving"]
  /\ UNCHANGED <<ViewVars, server>>

\* main.ts (README.md:344-347): main().catch
mainCatch ==
  /\ main.pc = "catch"
  /\ main' = [ConsoleCall(main, "error") EXCEPT !.pc = "exited", !.exit = <<1>>]
  /\ UNCHANGED <<ViewVars, server>>

\* main.ts (README.md:286-310): a request on /mcp creates a server; a failure is
\* logged.
httpRequest(ok) ==
  /\ main.pc = "serving"
  /\ main.started = "http"
  /\ server.instances < MaxServers
  /\ server' = [server EXCEPT !.instances = @ + 1]
  /\ main' = IF ok THEN main ELSE ConsoleCall(main, "error")
  /\ UNCHANGED ViewVars

\* main.ts (README.md:320-325): SIGINT or SIGTERM in http mode.
shutdown ==
  /\ main.pc = "serving"
  /\ main.started = "http"
  /\ main' = [main EXCEPT !.pc = "exited", !.exit = <<0>>]
  /\ UNCHANGED <<ViewVars, server>>

\* Code running in the process (the server, a dependency) calls console[m] at
\* some point after the module-level statements of main.ts.
consoleCall(m) ==
  /\ main.pc \in {"main", "catch", "serving"}
  /\ m \notin main.called
  /\ main' = ConsoleCall(main, m)
  /\ UNCHANGED <<ViewVars, server>>

InitMain ==
  /\ ViewInit
  /\ server = NoServer
  /\ main \in {Process(argv, isTTY) : argv \in SUBSET CommandLineFlags, isTTY \in BOOLEAN}

NextMain ==
  \/ resolve
  \/ suppress
  \/ \E ok \in BOOLEAN : startStdioServer(ok)
  \/ \E outcome \in {"ok", "port", "listen"} : startStreamableHTTPServer(outcome)
  \/ mainCatch
  \/ \E ok \in BOOLEAN : httpRequest(ok)
  \/ shutdown
  \/ \E m \in ConsoleMethods : consoleCall(m)

SpecMain == InitMain /\ [][NextMain]_vars

(***************************************************************************)
(* Properties                                                              *)
(***************************************************************************)
Sels == 1..Len(sels)
Reqs == 1..Len(outbox)

Text(r) == outbox[r].params.content[1].text
Follows(text, piece, next) ==
  \E k \in 1..(Len(text) - 1) : text[k] = piece /\ text[k + 1] = next

ThreeStates(value) == {SuccessStatus(value), WarningStatus(value), ErrorStatus(value)}
FinalClasses == {"status success", "status warning", "status error"}

\* Invocation s finishes in this step.
Completes(s) == InFlight(s) /\ ~InFlight(s)'

\* C1: a send-message request is in the outbox only if the update-model-context
\* request of the same selection is there before it and has settled; no state
\* has a selection's send-message issued while its update-model-context is
\* pending.
C1_SendAfterContextSettled ==
  \A r \in Reqs :
    outbox[r].method = SendMessage =>
      \E q \in 1..(r - 1) :
        /\ outbox[q].method = UpdateModelContext
        /\ outbox[q].sel = outbox[r].sel
        /\ outbox[q].state # "pending"

\* A send-message of one selection is out while the update-model-context of
\* another, overlapping selection is still pending.
C1_Witness ==
  \E r \in Reqs, q \in Reqs :
    /\ outbox[r].method = SendMessage
    /\ outbox[q].method = UpdateModelContext
    /\ outbox[q].state = "pending"
    /\ outbox[q].sel # outbox[r].sel

\* C2 (as claimed): once a selection's update-model-context has settled, succeeded
\* or failed, a send-message request of the same selection has been issued.
C2_SendAfterAnySettlement ==
  \A q \in Reqs :
    (outbox[q].method = UpdateModelContext /\ outbox[q].state # "pending") =>
      \E r \in Reqs : outbox[r].method = SendMessage /\ outbox[r].sel = outbox[q].sel

\* C3 (as claimed): when a selection whose update-model-context succeeded finishes
\* on a failed send-message (an error result or a rejection), the status
\* written is the partial-failure state, class warning.
C3_PartialFailureOnAnySendFailure ==
  [][\A s \in Sels :
       (/\ sels[s].pc = "await_sendMessage"
        /\ Completes(s)
        /\ \E q \in Reqs : /\ outbox[q].method = UpdateModelContext
                           /\ outbox[q].sel = s
                           /\ outbox[q].state = "ok"
        /\ outbox'[sels[s].req].state \in {"isError", "rejected"})
       => /\ status' = WarningStatus(sels[s].value)
          /\ status'.className = "status warning"]_vars

\* C4: no invocation of handleSelect ends rejected; an invocation is suspended
\* only on a request of its own that is still pending; and the step that
\* finishes an invocation writes one of the three final states for its value,
\* never leaving the class "sending", after which the invocation stays
\* finished.
C4_AlwaysOneOfThreeStates ==
  /\ [](\A s \in Sels :
          /\ sels[s].pc # "rejected"
          /\ InFlight(s) => /\ sels[s].req \in Reqs
                            /\ outbox[sels[s].req].sel = s
                            /\ outbox[sels[s].req].state = "pending"
          /\ ~InFlight(s) => \A r \in Reqs : outbox[r].sel = s => outbox[r].state # "pending")
  /\ [][\A s \in Sels :
          /\ Completes(s) => /\ sels'[s].pc = "fulfilled"
                             /\ status' \in ThreeStates(sels[s].value)
                             /\ status'.className \in FinalClasses
          /\ ~InFlight(s) => sels'[s] = sels[s]]_vars

\* Two overlapping selections have both finished, one on a rejected
\* update-model-context and one on a rejected send-message.
C4_Witness ==
  \E s \in Sels, t \in Sels :
    /\ s # t
    /\ sels[s].pc = "fulfilled" /\ sels[t].pc = "fulfilled"
    /\ \E q \in Reqs : outbox[q].sel = s /\ outbox[q].method = UpdateModelContext
                       /\ outbox[q].state = "rejected"
    /\ \E r \in Reqs : outbox[r].sel = t /\ outbox[r].method = SendMessage
                       /\ outbox[r].state = "rejected"
    /\ status.className = "status error"

C6_TeardownAlwaysAcknowledges ==
  /\ teardown \in {"none", "ack"}
  /\ (connected /\ teardown = "none") => ENABLED onteardown

\* Teardown was acknowledged with an update-model-context and a send-message
\* still pending.
C6_Witness ==
  /\ teardown = "ack"
  /\ \E q \in Reqs : Pending(q, UpdateModelContext)
  /\ \E r \in Reqs : Pending(r, SendMessage)

\* C7 (as claimed): once teardown has been handled no step changes the Selection
\* State or the status, and no request is issued.
C7_TornDownIsTerminal ==
  [][teardown = "ack" =>
       /\ _selectedId' = _selectedId
       /\ status' = status
       /\ Len(outbox') = Len(outbox)]_vars

\* C8: a displayed card can be clicked whatever is in flight; the click records
\* its entry as the Selection State, marks exactly the cards of that entry and
\* starts its own sequence without touching the others; every pending request
\* can be settled; settling leaves the Selection State and the marks alone; so
\* the Selection State is that of the last click and no card of another entry
\* is marked.
C8_LastClickWins ==
  /\ [](/\ \A k \in 1..Len(cards) :
             Len(sels) < MaxSelections => ENABLED handleSelect(cards[k].value)
        /\ \A r \in Reqs :
             /\ Pending(r, UpdateModelContext) => ENABLED SettleUpdateModelContext(r, "ok")
             /\ Pending(r, SendMessage) => ENABLED SettleSendMessage(r, "ok")
        /\ sels # <<>> => _selectedId = sels[Len(sels)].value.id
        /\ \A k \in 1..Len(cards) : cards[k].selected => cards[k].value.id = _selectedId)
  /\ [][/\ Len(sels') = Len(sels) + 1 =>
             LET s == Len(sels')
                 v == sels'[s].value
             IN /\ _selectedId' = v.id
                /\ Len(cards') = Len(cards)
                /\ \A k \in 1..Len(cards) :
                     /\ cards'[k].value = cards[k].value
                     /\ cards'[k].selected = (cards[k].value.id = v.id)
                /\ \E k \in 1..Len(cards) : cards[k].value = v
                /\ sels'[s].req \in 1..Len(outbox')
                /\ outbox'[sels'[s].req].method = UpdateModelContext
                /\ outbox'[sels'[s].req].state = "pending"
                /\ outbox'[sels'[s].req].sel = s
                /\ SubSeq(sels', 1, Len(sels)) = sels
                /\ SubSeq(outbox', 1, Len(outbox)) = outbox
        /\ (Len(sels') = Len(sels) /\ outbox' # outbox) =>
             /\ _selectedId' = _selectedId
             /\ cards' = cards]_vars

\* alpha was clicked, then beta while alpha was in flight; the host settled
\* beta's sequence first and alpha's last, and beta is still the selection.
C8_Witness ==
  /\ Len(sels) = 2 /\ Len(outbox) = 4
  /\ sels[1].value.id = "alpha" /\ sels[2].value.id = "beta"
  /\ sels[1].pc = "fulfilled" /\ sels[2].pc = "fulfilled"
  /\ outbox[1].sel = 1 /\ outbox[2].sel = 2 /\ outbox[3].sel = 2 /\ outbox[4].sel = 1
  /\ status = SuccessStatus(sels[1].value)
  /\ _selectedId = "beta"
  /\ \E k \in 1..Len(cards) : cards[k].selected /\ cards[k].value.id = "beta"

\* C9: a step that changes _selectedId is an invocation of handleSelect, and the
\* new value is the id of the entry that invocation was called with.
C9_OnlyHandleSelectWritesSelection ==
  [][_selectedId' # _selectedId =>
       /\ Len(sels') = Len(sels) + 1
       /\ _selectedId' = sels'[Len(sels')].value.id]_vars

\* After a selection of beta the view has seen a host-context change, a
\* re-rendering tool result, a cancellation, a teardown and the settling of
\* its requests, and beta is still recorded.
C9_Witness ==
  /\ _selectedId = "beta"
  /\ presentation.theme = <<"dark">>
  /\ cards # <<>> /\ \A k \in 1..Len(cards) : ~cards[k].selected
  /\ status = CancelledStatus
  /\ teardown = "ack"
  /\ \A s \in Sels : ~InFlight(s)

\* C10 (as claimed): the step that shows the cancellation indicator changes neither
\* the Selection State nor any invocation or request, and an invocation whose
\* update-model-context was pending when the indicator was shown issues its
\* send-message when that request settles.
C10_CancellationSuppressesNothing ==
  [][/\ (status' = CancelledStatus /\ status # CancelledStatus) =>
          /\ _selectedId' = _selectedId
          /\ sels' = sels
          /\ outbox' = outbox
     /\ \A s \in Sels :
          (/\ status = CancelledStatus
           /\ sels[s].pc = "await_updateModelContext"
           /\ sels'[s].pc # "await_updateModelContext")
          => /\ sels'[s].pc = "await_sendMessage"
             /\ outbox'[sels'[s].req].method = SendMessage
             /\ outbox'[sels'[s].req].sel = s]_vars

CardValues(cs) == [k \in 1..Len(cs) |-> cs[k].value]

HasValues(result) ==
  result.structuredContent # <<>> /\ result.structuredContent[1].values # <<>>

\* C11: a tool-result step whose result carries structuredContent.values leaves
\* exactly one unmarked card per entry, in the order of the entries; one that
\* carries none leaves the cards as they were; two results with the same
\* structured content and different model text make the same step; and every
\* step that changes the displayed entries is such a tool-result step.
C11_CardsAreTheStructuredValues ==
  [][/\ \A result \in RenderResults :
          ontoolresult(result) =>
            /\ IF HasValues(result)
               THEN LET vs == result.structuredContent[1].values[1]
                    IN /\ Len(cards') = Len(vs)
                       /\ \A k \in 1..Len(vs) :
                            cards'[k].value = vs[k] /\ ~cards'[k].selected
               ELSE cards' = cards
            /\ \A other \in RenderResults :
                 other.structuredContent = result.structuredContent => ontoolresult(other)
     /\ CardValues(cards') # CardValues(cards) =>
          \E result \in RenderResults :
            /\ HasValues(result)
            /\ ontoolresult(result)
            /\ CardValues(cards') = result.structuredContent[1].values[1]]_vars

\* After a selection the reversed catalog has been delivered: the cards are
\* Beta Framework, Alpha Protocol, in that order.
C11_Witness ==
  /\ _selectedId # NULL
  /\ Len(cards) = 2
  /\ cards[1].value.id = "beta" /\ cards[2].value.id = "alpha"
  /\ ~cards[1].selected /\ ~cards[2].selected
  /\ \E s \in Sels : ~InFlight(s)

\* What a snapshot that lacks an aspect leaves of it.
KeepsAbsentAspects(ctx) ==
  /\ ctx.theme = <<>> => presentation'.theme = presentation.theme
  /\ ctx.variables = <<>> => presentation'.variables = presentation.variables
  /\ ctx.fonts = <<>> => presentation'.fonts = presentation.fonts
  /\ ctx.safeAreaInsets = <<>> => presentation'.padding = presentation.padding

\* C12: a step that applies a snapshot, on host-context-changed or as the initial
\* context of connect, leaves every aspect the snapshot lacks as it was, and
\* the theme-only snapshot changes the theme and nothing else.
C12_AbsentAspectsUnchanged ==
  [][\A ctx \in ProjectorContexts :
       /\ handleHostContextChanged(ctx) =>
            /\ KeepsAbsentAspects(ctx)
            /\ ctx = ThemeOnlyContext =>
                 presentation' = [presentation EXCEPT !.theme = <<"dark">>]
       /\ connectThen(<<ctx>>) => KeepsAbsentAspects(ctx)]_vars

\* Scenario D: the theme is "dark", which only the theme-only snapshot sets, and
\* the variables, fonts and paddings of the full snapshot applied before it
\* are still there.
C12_Witness ==
  /\ presentation.theme = <<"dark">>
  /\ presentation.variables = FullVariables
  /\ presentation.fonts = FullContext.fonts
  /\ presentation.padding.bottom = Px(8)

\* C13: for every snapshot and every presentation state the view reaches, applying
\* the snapshot twice gives the presentation that applying it once gives.
C13_ProjectIdempotent ==
  \A ctx \in ProjectorContexts :
    Project(Project(presentation, ctx), ctx) = Project(presentation, ctx)

\* All four aspects have been applied, the paddings not zero, and a later
\* snapshot has overridden one variable of the full snapshot.
C13_Witness ==
  /\ presentation.theme # <<>>
  /\ <<"--font-sans", "Inter">> \in presentation.variables
  /\ <<"--color-background-primary", "#ffffff">> \in presentation.variables
  /\ presentation.fonts # <<>>
  /\ presentation.padding.top = Px(10)

\* C19 (as claimed): once no selection sequence is in flight, a status that reports
\* a selection names the entry of the last click, the one recorded in the
\* Selection State.
C19_StatusNamesCurrentSelection ==
  (/\ sels # <<>>
   /\ \A s \in Sels : ~InFlight(s)
   /\ status.textContent # <<>>
   /\ status.textContent[1] = "Selected: ")
  => /\ status.textContent[2] = sels[Len(sels)].value.label
     /\ sels[Len(sels)].value.id = _selectedId

\* C20 (as claimed): whenever the Selection State is not null and a card of that
\* entry is displayed, the cards carrying the mark are exactly the cards of
\* that entry.
C20_SelectedCardIsMarked ==
  (/\ _selectedId # NULL
   /\ \E k \in 1..Len(cards) : cards[k].value.id = _selectedId)
  => \A k \in 1..Len(cards) : cards[k].selected <=> (cards[k].value.id = _selectedId)

Calls == 1..Len(server.calls)

Catalogue(c) == server.calls[c].response.structuredContent[1].values

\* C15: every pick_value call with the empty argument object runs the handler, and
\* every call that runs it returns ten entries with pairwise distinct ids, the
\* first being alpha / Alpha Protocol; the responses of any two such calls, on
\* the same or on different instances, are equal.
C15_SameTenEntriesEveryCall ==
  /\ \A c \in Calls :
       /\ server.calls[c].arguments = {} => server.calls[c].handlerRan
       /\ server.calls[c].handlerRan =>
            /\ ~server.calls[c].response.isError
            /\ Len(Catalogue(c)) = 10
            /\ \A j \in 1..10, k \in 1..10 :
                 Catalogue(c)[j].id = Catalogue(c)[k].id => j = k
            /\ Catalogue(c)[1].id = "alpha"
            /\ Catalogue(c)[1].label = "Alpha Protocol"
  /\ \A c \in Calls, d \in Calls :
       (server.calls[c].handlerRan /\ server.calls[d].handlerRan) =>
         server.calls[c].response = server.calls[d].response

\* Three calls have been answered by the handler, on two instances, the second
\* instance before the first.
C15_Witness ==
  /\ Len(server.calls) = 3
  /\ \A c \in Calls : server.calls[c].handlerRan
  /\ server.calls[1].instance = 2
  /\ server.calls[2].instance = 1
  /\ server.calls[1].arguments = {}

\* C16 (as claimed): in every response of the handler no id, label or description
\* of an entry of structuredContent.values, and not the instruction, occurs
\* in a text block of content.
C16_NoStructuredDataInText ==
  \A c \in Calls :
    server.calls[c].handlerRan =>
      \A b \in 1..Len(server.calls[c].response.content) :
        LET text == server.calls[c].response.content[b].text
            sc == server.calls[c].response.structuredContent[1]
        IN /\ ~Contains(text, sc.instruction)
           /\ \A k \in 1..Len(sc.values) :
                /\ ~Contains(text, sc.values[k].id)
                /\ ~Contains(text, sc.values[k].label)
                /\ ~Contains(text, sc.values[k].description)

\* C17: in stdio mode nothing is ever written to stdout or stderr by a console
\* call, whatever console methods have been called and also when start-up
\* fails.
C17_NoOutputInStdioMode ==
  main.transport = "stdio" => main.streams = <<>>

\* Start-up failed in stdio mode, main().catch called console.error, all five
\* console methods have been called, the process exited with code 1.
C17_Witness ==
  /\ main.transport = "stdio"
  /\ main.exit = <<1>>
  /\ main.called = ConsoleMethods
  /\ main.streams = <<>>

\* C18: once resolved, the transport is stdio if --stdio is given, else http if
\* --http is given, else stdio exactly when stdin is not a terminal; and the
\* server is started on that transport and no other.
C18_TransportAsResolved ==
  main.pc # "resolve" =>
    /\ "--stdio" \in main.argv => main.transport = "stdio"
    /\ ("--stdio" \notin main.argv /\ "--http" \in main.argv) => main.transport = "http"
    /\ main.argv \cap {"--stdio", "--http"} = {} =>
         (main.transport = "stdio" <=> ~main.isTTY) /\ main.transport \in {"stdio", "http"}
    /\ main.started # "none" => main.started = main.transport

\* Both flags were given on a terminal and the server runs on stdio.
C18_Witness ==
  /\ main.argv = {"--stdio", "--http"}
  /\ main.isTTY
  /\ main.started = "stdio"

====
